---- MODULE Spec2Model ----
(***************************************************************************)
(* Model of the average-cost ledger of ISKvsAF:                            *)
(*   src/investments/investment.py  (class Investment, the "Position")     *)
(*   src/investments/portfolio.py   (class Portfolio, the "Ledger")        *)
(*                                                                         *)
(* Numbers.  The Python code computes on int/float values.  The model      *)
(* computes on exact rationals <<n, d>> (d > 0, lowest terms), i.e. the    *)
(* real-number reading of the arithmetic; floating-point rounding is not   *)
(* modelled.  Division by zero is modelled as the ZeroDivisionError that   *)
(* Python raises.                                                          *)
(***************************************************************************)
EXTENDS Integers, Sequences, FiniteSets, TLC

VARIABLES
    investments,   \* Portfolio.investments: asset -> Investment, Absent for an asset that is no key
    transactions,  \* Portfolio.transactions: the audit trail
    calls,         \* number of add_transaction calls made so far
    last,          \* the last add_transaction call: its arguments and its outcome
    prev,          \* Portfolio state right before the last add_transaction call
    inv,           \* a stand-alone Investment (Position)
    invOps,        \* number of buy/sell calls made on inv
    invLast,       \* the last call on inv: its arguments and its outcome
    invPrev,       \* inv right before the last call
    buys           \* the buys of a buy-only run, in order: <<price, quantity, fee>> each

vars == <<investments, transactions, calls, last, prev, inv, invOps, invLast, invPrev, buys>>

ledgerVars == <<investments, transactions, calls, last, prev>>

positionVars == <<inv, invOps, invLast, invPrev, buys>>

----------------------------------------------------------------------------
(* Bounds of the model *)

MaxCalls == 2

MaxOps == 3

----------------------------------------------------------------------------
(* Exact rational arithmetic *)

\* F applied to the value of e: e is evaluated once, whatever the number of
\* places F uses it in (the LET x == e IN F(x) of a value computed once)
With(e, F(_)) == CHOOSE r \in {F(x) : x \in {e}} : TRUE

Abs(n) == IF n < 0 THEN -n ELSE n

RECURSIVE GCD(_, _)
GCD(a, b) == IF b = 0 THEN a ELSE GCD(b, a % b)

\* n/d in lowest terms with a positive denominator (d # 0)
Norm(n, d) ==
    With(<<n, d, IF d < 0 THEN -1 ELSE 1>>, LAMBDA v :
    With(GCD(Abs(v[1]), Abs(v[2])), LAMBDA g :
        <<(v[3] * v[1]) \div g, (v[3] * v[2]) \div g>>))

R(n) == <<n, 1>>

Zero == R(0)

\* the products are taken after cancelling common factors, to keep them small
RAdd(a, b) ==
    With(<<a, b>>, LAMBDA v :
    With(GCD(v[1][2], v[2][2]), LAMBDA g :
        Norm(v[1][1] * (v[2][2] \div g) + v[2][1] * (v[1][2] \div g),
             (v[1][2] \div g) * v[2][2])))

RNeg(a) == With(a, LAMBDA x : <<-x[1], x[2]>>)

RSub(a, b) == RAdd(a, RNeg(b))

RMul(a, b) ==
    With(<<a, b>>, LAMBDA v :
    With(<<GCD(Abs(v[1][1]), v[2][2]), GCD(Abs(v[2][1]), v[1][2])>>, LAMBDA g :
        Norm((v[1][1] \div g[1]) * (v[2][1] \div g[2]),
             (v[1][2] \div g[2]) * (v[2][2] \div g[1]))))

\* 1 / b, b # 0
RInv(b) == With(b, LAMBDA y : IF y[1] < 0 THEN <<-y[2], -y[1]>> ELSE <<y[2], y[1]>>)

\* a / b, b # 0
RDiv(a, b) == RMul(a, RInv(b))

\* a > b
RGt(a, b) ==
    With(<<a, b>>, LAMBDA v :
    With(GCD(v[1][2], v[2][2]), LAMBDA g :
        v[1][1] * (v[2][2] \div g) > v[2][1] * (v[1][2] \div g)))

RGe(a, b) == ~RGt(b, a)

----------------------------------------------------------------------------
(* class Investment *)

\* Investment.__init__
NewInvestment == [quantity |-> Zero, total_cost |-> Zero, realized_profit_loss |-> <<>>]

\* Investment.avg_price (property)
avg_price(i) ==
    With(i, LAMBDA self :
        IF self.quantity = Zero THEN Zero ELSE RDiv(self.total_cost, self.quantity))

\* a buy that leaves the fee out of the cost
buy_without_fee(i, price, quantity, fee) ==
    With(RMul(price, quantity), LAMBDA purchase_cost :
        [i EXCEPT !.total_cost = RAdd(@, purchase_cost),
                  !.quantity = RAdd(@, quantity)])

\* Investment.buy: the Investment after the call
buy(i, price, quantity, fee) ==
    With(RAdd(RMul(price, quantity), fee), LAMBDA purchase_cost :
        [i EXCEPT !.total_cost = RAdd(@, purchase_cost),
                  !.quantity = RAdd(@, quantity)])

\* a sell guard that compares the quantity sold with the cost basis instead of the holdings
sell_raises_vs_cost(i, quantity) == RGt(quantity, i.total_cost)

\* a sell without its guard
sell_never_raises(i, quantity) == FALSE

\* Investment.sell raises ValueError("Cannot sell more than the current quantity owned.")
sell_raises(i, quantity) == RGt(quantity, i.quantity)

\* Investment.sell, past its guard: the profit or loss it records and returns
sell_profit_loss(i, price, quantity, fee) ==
    With(quantity, LAMBDA qty :
    With(RSub(RMul(price, qty), fee), LAMBDA sale_proceeds :
    With(RMul(avg_price(i), qty), LAMBDA overhead_amount :
        RSub(sale_proceeds, overhead_amount))))

\* a sell that removes cost at the sale price instead of the average price
sell_at_sale_price(i, price, quantity, fee) ==
    With(i, LAMBDA self :
    With(quantity, LAMBDA qty :
    With(RMul(price, qty), LAMBDA overhead_amount :
        [self EXCEPT !.total_cost = RSub(@, overhead_amount),
                     !.quantity = RSub(@, qty),
                     !.realized_profit_loss =
                         Append(@, sell_profit_loss(self, price, qty, fee))])))

\* a sell that updates the quantity before it reads the average price
sell_quantity_first(i, price, quantity, fee) ==
    With(i, LAMBDA self :
    With(quantity, LAMBDA qty :
    With([self EXCEPT !.quantity = RSub(@, qty)], LAMBDA updated :
    With(RMul(avg_price(updated), qty), LAMBDA overhead_amount :
        [updated EXCEPT !.total_cost = RSub(@, overhead_amount),
                        !.realized_profit_loss =
                            Append(@, sell_profit_loss(self, price, qty, fee))]))))

\* Investment.sell, past its guard: the Investment after the call
sell(i, price, quantity, fee) ==
    With(i, LAMBDA self :
    With(quantity, LAMBDA qty :
    With(RMul(avg_price(self), qty), LAMBDA overhead_amount :
        [self EXCEPT !.total_cost = RSub(@, overhead_amount),
                     !.quantity = RSub(@, qty),
                     !.realized_profit_loss =
                         Append(@, sell_profit_loss(self, price, qty, fee))])))

\* Investment.total_realized_profit_loss
RECURSIVE SumSeq(_)
SumSeq(s) == IF s = <<>> THEN Zero ELSE RAdd(s[1], SumSeq(Tail(s)))

total_realized_profit_loss(i) == SumSeq(i.realized_profit_loss)

----------------------------------------------------------------------------
(* Calls on a stand-alone Investment *)

PosPrices == {R(0), R(100), R(120)}

PosQuantities == {R(1), R(2), R(3)}

PosFees == {R(0), R(5)}

NoCall == [op |-> "none"]

InvBuy(price, quantity, fee) ==
    /\ inv' = buy(inv, price, quantity, fee)
    /\ invLast' = [op |-> "buy", price |-> price, quantity |-> quantity, fee |-> fee,
                   result |-> "ok"]
    /\ invPrev' = inv
    /\ invOps' = invOps + 1
    /\ UNCHANGED ledgerVars

InvSell(price, quantity, fee) ==
    /\ IF sell_raises(inv, quantity)
       THEN /\ inv' = inv
            /\ invLast' = [op |-> "sell", price |-> price, quantity |-> quantity,
                           fee |-> fee, result |-> "InsufficientHoldings"]
       ELSE /\ inv' = sell(inv, price, quantity, fee)
            /\ invLast' = [op |-> "sell", price |-> price, quantity |-> quantity,
                           fee |-> fee, result |-> "ok",
                           returned |-> sell_profit_loss(inv, price, quantity, fee)]
    /\ invPrev' = inv
    /\ invOps' = invOps + 1
    /\ UNCHANGED ledgerVars

DoInvBuy ==
    /\ invOps < MaxOps
    /\ \E p \in PosPrices, q \in PosQuantities, f \in PosFees : InvBuy(p, q, f)
    /\ UNCHANGED buys

DoInvSell ==
    /\ invOps < MaxOps
    /\ \E p \in PosPrices, q \in PosQuantities, f \in PosFees : InvSell(p, q, f)
    /\ UNCHANGED buys

\* the arguments of the buys of a buy-only run (those of test_buy and
\* test_multiple_buys among them)
BuyPrices == {R(0), R(100), R(110)}

BuyQuantities == {R(5), R(10)}

BuyFees == {R(0), R(2), R(5)}

DoBuyOnly ==
    /\ invOps < MaxOps
    /\ \E p \in BuyPrices, q \in BuyQuantities, f \in BuyFees :
        /\ InvBuy(p, q, f)
        /\ buys' = Append(buys, <<p, q, f>>)

----------------------------------------------------------------------------
(* class Portfolio *)

\* Python's None (an absent to_asset)
None == "None"

\* Portfolio.base_currency, and the default of add_transaction's transaction_currency
base_currency == "SEK"

\* the outcome of a call: how it ended and the Portfolio it leaves
Outcome(result, invs, txs) == [result |-> result, investments |-> invs, transactions |-> txs]

\* The dictionary self.investments is a function on Assets whose value at an
\* asset that is no key of the dictionary is Absent (what dict.get returns as None).
Absent == [absent |-> TRUE]

\* the keys of self.investments
Held(invs) == {a \in DOMAIN invs : invs[a] # Absent}

\* self.investments[asset] = investment
Put(invs, asset, investment) == [invs EXCEPT ![asset] = investment]

\* investment = self.investments.get(asset); if not investment: create and store one
GetOrCreate(invs, asset) ==
    IF invs[asset] # Absent THEN invs ELSE Put(invs, asset, NewInvestment)

\* the record add_transaction appends for the call itself
CallRecord(action, asset, price, quantity, fee, timestamp, to_asset) ==
    [timestamp |-> timestamp, action |-> action, asset |-> asset, to_asset |-> to_asset,
     price |-> price, quantity |-> quantity, fee |-> fee,
     transaction_currency |-> base_currency]

\* the records handle_conversion appends for the two legs
LegRecord(action, asset, price, quantity, fee, timestamp) ==
    [timestamp |-> timestamp, action |-> action, asset |-> asset,
     price |-> price, quantity |-> quantity, fee |-> fee,
     transaction_currency |-> base_currency]

\* a handle_conversion that charges the fee on the buy leg as well
handle_conversion_fee_twice(invs, txs, from_asset, to_asset, quantity, price_in_base, fee_in_base, timestamp) ==
    IF invs[from_asset] = Absent
    THEN Outcome("NoHoldings", invs, txs)
    ELSE
    With(invs[from_asset], LAMBDA from_investment :
    With(RAdd(RMul(price_in_base, quantity), fee_in_base), LAMBDA total_cost :
    With(avg_price(from_investment), LAMBDA price_sold :
        IF price_sold = Zero
        THEN Outcome("ZeroDivisionError", invs, txs)
        ELSE
        With(RDiv(total_cost, price_sold), LAMBDA quantity_to_sell :
            IF RGt(quantity_to_sell, from_investment.quantity)
               \/ sell_raises(from_investment, quantity_to_sell)
            THEN Outcome("InsufficientHoldings", invs, txs)
            ELSE
            With(Put(invs, from_asset,
                     sell(from_investment, price_sold, quantity_to_sell, fee_in_base)),
                 LAMBDA sold :
            With(GetOrCreate(sold, to_asset), LAMBDA got :
            With(Put(got, to_asset, buy(got[to_asset], price_in_base, quantity, fee_in_base)),
                 LAMBDA bought :
                Outcome("ok", bought,
                        txs \o <<LegRecord("sell", from_asset, avg_price(bought[from_asset]),
                                           quantity_to_sell, fee_in_base, timestamp),
                                 LegRecord("buy", to_asset, price_in_base, quantity, Zero,
                                           timestamp)>>))))))))

\* Portfolio.handle_conversion
handle_conversion(invs, txs, from_asset, to_asset, quantity, price_in_base, fee_in_base, timestamp) ==
    IF invs[from_asset] = Absent
    THEN Outcome("NoHoldings", invs, txs)
    ELSE
    With(invs[from_asset], LAMBDA from_investment :
    With(RAdd(RMul(price_in_base, quantity), fee_in_base), LAMBDA total_cost :
    With(avg_price(from_investment), LAMBDA price_sold :
        IF price_sold = Zero
        THEN Outcome("ZeroDivisionError", invs, txs)
        ELSE
        With(RDiv(total_cost, price_sold), LAMBDA quantity_to_sell :
            IF RGt(quantity_to_sell, from_investment.quantity)
               \/ sell_raises(from_investment, quantity_to_sell)
            THEN Outcome("InsufficientHoldings", invs, txs)
            ELSE
            With(Put(invs, from_asset,
                     sell(from_investment, price_sold, quantity_to_sell, fee_in_base)),
                 LAMBDA sold :
            With(GetOrCreate(sold, to_asset), LAMBDA got :
            With(Put(got, to_asset, buy(got[to_asset], price_in_base, quantity, Zero)),
                 LAMBDA bought :
                Outcome("ok", bought,
                        txs \o <<LegRecord("sell", from_asset, avg_price(bought[from_asset]),
                                           quantity_to_sell, fee_in_base, timestamp),
                                 LegRecord("buy", to_asset, price_in_base, quantity, Zero,
                                           timestamp)>>))))))))

\* Portfolio.add_transaction
add_transaction(invs, txs, action, asset, price, quantity, fee, timestamp, to_asset) ==
    With(GetOrCreate(invs, asset), LAMBDA created :
    With(CallRecord(action, asset, price, quantity, fee, timestamp, to_asset), LAMBDA record :
        CASE action = "buy" ->
                Outcome("ok", Put(created, asset, buy(created[asset], price, quantity, fee)),
                        Append(txs, record))
          [] action = "sell" ->
                IF sell_raises(created[asset], quantity)
                THEN Outcome("InsufficientHoldings", created, txs)
                ELSE Outcome("ok",
                             Put(created, asset, sell(created[asset], price, quantity, fee)),
                             Append(txs, record))
          [] action = "deposit" ->
                Outcome("ok", Put(created, asset, buy(created[asset], Zero, quantity, Zero)),
                        Append(txs, record))
          [] action = "convert" ->
                IF to_asset = None
                THEN Outcome("MissingConversionTarget", created, txs)
                ELSE With(handle_conversion(created, txs, asset, to_asset, quantity,
                                            price, fee, timestamp),
                          LAMBDA done :
                              IF done.result = "ok"
                              THEN [done EXCEPT !.transactions = Append(@, record)]
                              ELSE done)
          [] OTHER -> Outcome("UnknownAction", created, txs)))

----------------------------------------------------------------------------
(* Calls of add_transaction *)

Assets == {"BTC", "ETH", "SOL"}

Prices == {R(300), R(1000)}

Quantities == {R(1), R(2)}

NonPositiveQuantities == {R(-1), R(0)}

Fees == {R(0), R(5)}

\* one call; the caller hands over its records in time order, one timestamp per call
AddTransaction(action, asset, price, quantity, fee, to_asset) ==
    /\ \E done \in {add_transaction(investments, transactions, action, asset, price,
                                     quantity, fee, calls + 1, to_asset)} :
           /\ investments' = done.investments
           /\ transactions' = done.transactions
           /\ last' = [op |-> action, asset |-> asset, to_asset |-> to_asset,
                       price |-> price, quantity |-> quantity, fee |-> fee,
                       timestamp |-> calls + 1, result |-> done.result]
    /\ prev' = [investments |-> investments, transactions |-> transactions]
    /\ calls' = calls + 1
    /\ UNCHANGED positionVars

DoBuy ==
    /\ calls < MaxCalls
    /\ \E a \in Assets, p \in Prices, q \in Quantities, f \in Fees :
            AddTransaction("buy", a, p, q, f, None)

DoSell ==
    /\ calls < MaxCalls
    /\ \E a \in Assets, p \in Prices, q \in Quantities, f \in Fees :
            AddTransaction("sell", a, p, q, f, None)

DoDeposit ==
    /\ calls < MaxCalls
    /\ \E a \in Assets, q \in Quantities :
            AddTransaction("deposit", a, Zero, q, Zero, None)

DoDepositNonPositive ==
    /\ calls < MaxCalls
    /\ \E a \in Assets, q \in NonPositiveQuantities :
            AddTransaction("deposit", a, Zero, q, Zero, None)

DoConvert ==
    /\ calls < MaxCalls
    /\ \E a \in Assets, t \in Assets \cup {None}, p \in Prices, q \in Quantities, f \in Fees :
            AddTransaction("convert", a, p, q, f, t)

DoUnknown ==
    /\ calls < MaxCalls
    /\ \E a \in Assets :
            AddTransaction("transfer", a, R(300), R(1), Zero, None)

----------------------------------------------------------------------------

Init ==
    /\ investments = [a \in Assets |-> Absent]
    /\ transactions = <<>>
    /\ calls = 0
    /\ last = NoCall
    /\ prev = [investments |-> [a \in Assets |-> Absent], transactions |-> <<>>]
    /\ inv = NewInvestment
    /\ invOps = 0
    /\ invLast = NoCall
    /\ invPrev = NewInvestment
    /\ buys = <<>>

NextPosition == DoInvBuy \/ DoInvSell

\* a fresh Investment that is only bought into
SpecBuys == Init /\ [][DoBuyOnly]_vars

SpecPosition == Init /\ [][NextPosition]_vars

Next == DoBuy \/ DoSell \/ DoDeposit \/ DoConvert \/ DoUnknown

Spec == Init /\ [][Next]_vars

NextAnyQuantity == Next \/ DoDepositNonPositive

SpecAnyQuantity == Init /\ [][NextAnyQuantity]_vars

----------------------------------------------------------------------------
(* Claims about a stand-alone Investment, under SpecPosition *)

LastSell == invLast.op = "sell"

LastSellOk == LastSell /\ invLast.result = "ok"

\* C8: every sell of more than the Position's current quantity fails with
\* InsufficientHoldings and leaves quantity, total_cost and the realized-event
\* list exactly as they were before the call.
C8_OversellRejected ==
    (LastSell /\ RGt(invLast.quantity, invPrev.quantity))
        => /\ invLast.result = "InsufficientHoldings"
           /\ inv.quantity = invPrev.quantity
           /\ inv.total_cost = invPrev.total_cost
           /\ inv.realized_profit_loss = invPrev.realized_profit_loss

\* an oversell was attempted on a Position that holds units and has a sale on record
C8_Witness ==
    /\ LastSell
    /\ RGt(invLast.quantity, invPrev.quantity)
    /\ RGt(invPrev.quantity, Zero)
    /\ invPrev.realized_profit_loss # <<>>

\* C9: a successful sell(price, qty, fee) with 0 < qty <= Q on a Position with
\* quantity Q > 0 and total_cost C leaves quantity Q - qty and total_cost
\* C - (C/Q)*qty (no price, no fee in it), appends and returns exactly one
\* realized event price*qty - fee - (C/Q)*qty, and when qty < Q the average
\* price is what it was before the sale.
C9_SellConservation ==
    LET Q == invPrev.quantity
        C == invPrev.total_cost
        qty == invLast.quantity
        n == Len(invPrev.realized_profit_loss)
    IN  (LastSellOk /\ RGt(Q, Zero) /\ RGt(qty, Zero) /\ RGe(Q, qty))
          => /\ RAdd(inv.quantity, qty) = Q
             \* total_cost' * Q = C * (Q - qty)
             /\ RMul(inv.total_cost, Q) = RMul(C, RSub(Q, qty))
             /\ Len(inv.realized_profit_loss) = n + 1
             /\ SubSeq(inv.realized_profit_loss, 1, n) = invPrev.realized_profit_loss
             \* (event + fee) * Q = qty * (price * Q - C)
             /\ RMul(RAdd(inv.realized_profit_loss[n + 1], invLast.fee), Q)
                    = RMul(qty, RSub(RMul(invLast.price, Q), C))
             /\ invLast.returned = inv.realized_profit_loss[n + 1]
             \* total_cost' / quantity' = C / Q, cross-multiplied
             /\ RGt(Q, qty) => RMul(inv.total_cost, Q) = RMul(C, inv.quantity)

\* a partial sale at a price different from the average price, with a fee
C9_Witness ==
    /\ LastSellOk
    /\ RGt(invPrev.quantity, invLast.quantity)
    /\ invLast.fee # Zero
    /\ invLast.price # avg_price(invPrev)
    /\ avg_price(invPrev) # Zero

\* C10: selling exactly the entire current quantity leaves quantity = 0 and
\* total_cost = 0, average_price then returns 0, and the realized-event
\* history is kept (the sale's event is added to it).
C10_FullLiquidation ==
    LET n == Len(invPrev.realized_profit_loss)
    IN  (LastSellOk /\ invLast.quantity = invPrev.quantity)
          => /\ inv.quantity = Zero
             /\ inv.total_cost = Zero
             /\ avg_price(inv) = Zero
             /\ Len(inv.realized_profit_loss) = n + 1
             /\ SubSeq(inv.realized_profit_loss, 1, n) = invPrev.realized_profit_loss

\* the rest of a Position with a cost basis is sold after an earlier partial sale
C10_Witness ==
    /\ LastSellOk
    /\ invLast.quantity = invPrev.quantity
    /\ invPrev.total_cost # Zero
    /\ invPrev.realized_profit_loss # <<>>

----------------------------------------------------------------------------
(* Claims about Portfolio.add_transaction, under Spec and SpecAnyQuantity *)

Called == last.op # "none"

Failed == Called /\ last.result # "ok"

ConvertOk == last.op = "convert" /\ last.result = "ok"

\* the Position of an asset, a zeroed one when the asset has none yet
PositionOf(invs, a) == IF invs[a] = Absent THEN NewInvestment ELSE invs[a]

\* price * quantity + fee of the last call
LastCost == RAdd(RMul(last.price, last.quantity), last.fee)

\* C1: a failing add_transaction call, whatever its action and asset, leaves the
\* Ledger exactly as it was: the same set of assets in the positions mapping, the
\* same quantity, total_cost and realized events in every Position, and the same
\* audit trail.
C1_FailedCallChangesNothing ==
    Failed => /\ Held(investments) = Held(prev.investments)
              /\ \A a \in Held(investments) : investments[a] = prev.investments[a]
              /\ transactions = prev.transactions

\* C2: a convert to another asset whose source asset has no Position yet fails
\* with NoHoldings.
C2_ConvertWithoutSourceIsNoHoldings ==
    ( /\ last.op = "convert"
      /\ last.to_asset # None
      /\ last.to_asset # last.asset
      /\ prev.investments[last.asset] = Absent )
        => last.result = "NoHoldings"

\* C3: a convert whose to_asset equals its source asset never succeeds and never
\* changes the quantity, total_cost or realized events of a Position (the claim's
\* second sentence, which follows from "fails with MissingConversionTarget").
C3_ConvertToItselfNeverSucceeds ==
    (last.op = "convert" /\ last.to_asset = last.asset)
        => /\ last.result # "ok"
           /\ \A a \in Held(prev.investments) : investments[a] = prev.investments[a]

\* C4: a successful convert lengthens the audit trail by exactly two records,
\* a "sell" record for the source asset and then a "buy" record for the
\* destination asset, both with the call's timestamp.
C4_ConvertAppendsTwoRecords ==
    LET n == Len(prev.transactions)
    IN  ConvertOk
          => /\ Len(transactions) = n + 2
             /\ SubSeq(transactions, 1, n) = prev.transactions
             /\ transactions[n + 1].action = "sell"
             /\ transactions[n + 1].asset = last.asset
             /\ transactions[n + 1].timestamp = last.timestamp
             /\ transactions[n + 2].action = "buy"
             /\ transactions[n + 2].asset = last.to_asset
             /\ transactions[n + 2].timestamp = last.timestamp

\* C5: a successful convert with fee f appends exactly one realized event, equal
\* to -f, to the source Position, and leaves the realized events of the
\* destination Position as they were.
C5_ConvertRealizesMinusFee ==
    ConvertOk
      => /\ investments[last.asset].realized_profit_loss
                = Append(prev.investments[last.asset].realized_profit_loss, RNeg(last.fee))
         /\ investments[last.to_asset].realized_profit_loss
                = PositionOf(prev.investments, last.to_asset).realized_profit_loss

C7_DepositNeedsPositiveQuantity ==
    /\ (last.op = "deposit" /\ RGe(Zero, last.quantity)) => last.result = "InvalidAction"
    /\ (last.op = "deposit" /\ last.result = "ok")
          => RGt(investments[last.asset].quantity,
                 PositionOf(prev.investments, last.asset).quantity)

\* C11: after any sequence of add_transaction calls, successful or failing, with
\* quantity > 0, price >= 0 and fee >= 0, every Position of the Ledger has
\* quantity >= 0, the source Position of a convert included.
C11_QuantityNeverNegative ==
    \A a \in Held(investments) : RGe(investments[a].quantity, Zero)

\* a convert to another asset has sold the whole source Position, to the last unit
C11_Witness ==
    /\ ConvertOk
    /\ last.to_asset # last.asset
    /\ RGt(prev.investments[last.asset].quantity, Zero)
    /\ investments[last.asset].quantity = Zero
    /\ RGt(investments[last.to_asset].quantity, Zero)

----------------------------------------------------------------------------
(* Claims about a fresh Investment that is only bought into, under SpecBuys *)

\* the sum of quantity_i over the buys made
RECURSIVE SumQuantity(_)
SumQuantity(bs) == IF bs = <<>> THEN Zero ELSE RAdd(bs[1][2], SumQuantity(Tail(bs)))

\* the sum of price_i * quantity_i + fee_i over the buys made
RECURSIVE SumCost(_)
SumCost(bs) ==
    IF bs = <<>> THEN Zero
    ELSE RAdd(RAdd(RMul(bs[1][1], bs[1][2]), bs[1][3]), SumCost(Tail(bs)))

\* C12: over any sequence of buys (price >= 0, quantity > 0, fee >= 0) on a fresh
\* Position, no buy lowers quantity or total_cost, the realized events stay
\* empty, quantity is the sum of the quantities bought and total_cost the sum of
\* price*quantity + fee, so that average_price is the fee-inclusive weighted mean.
C12_BuysAccumulate ==
    /\ inv.quantity = SumQuantity(buys)
    /\ inv.total_cost = SumCost(buys)
    /\ inv.realized_profit_loss = <<>>
    /\ RGe(inv.quantity, invPrev.quantity)
    /\ RGe(inv.total_cost, invPrev.total_cost)
    /\ buys # <<>> => RMul(avg_price(inv), SumQuantity(buys)) = SumCost(buys)

\* buy(100, 10, 5) then buy(110, 5, 2) gives quantity 15 and total_cost 1557
C12_Witness ==
    /\ buys = <<<<R(100), R(10), R(5)>>, <<R(110), R(5), R(2)>>>>
    /\ inv.quantity = R(15)
    /\ inv.total_cost = R(1557)
    /\ avg_price(inv) = <<519, 5>>

----------------------------------------------------------------------------
(* Claims about the errors of add_transaction, under Spec *)

\* the five error kinds add_transaction documents
NamedErrors ==
    {"InsufficientHoldings", "InvalidAction", "UnknownAction",
     "MissingConversionTarget", "NoHoldings"}

\* C13: every failing add_transaction call fails with one of the five named
\* error kinds, a convert whose source Position has average price 0 included
\* (it fails with InsufficientHoldings or NoHoldings).
C13_FailuresAreNamed ==
    Failed => /\ last.result \in NamedErrors
              /\ (/\ last.op = "convert"
                  /\ last.to_asset # None
                  /\ avg_price(GetOrCreate(prev.investments, last.asset)) = Zero)
                 => last.result \in {"InsufficientHoldings", "NoHoldings"}

====
